---- MODULE Spec2Model ----
(***************************************************************************)
(* A model of agripandas: the DataFrameRegistry (registry.py) and the      *)
(* header inference of load_excel with the column-name normaliser          *)
(* (loaders.py), and export_to_csv (export.py).                            *)
(*                                                                         *)
(* Text is modelled as a sequence of one-character strings, so that        *)
(* strip(), lower(), replace() and "_".join() are computed and not         *)
(* assumed.                                                                *)
(***************************************************************************)
EXTENDS Naturals, Integers, Sequences, FiniteSets, TLC

VARIABLES
    tables,      \* DataFrameRegistry._tables: an insertion-ordered dict
    last,        \* the most recent registry call and its outcome
    recent,      \* per name: the latest register/unregister call (history)
    xls,         \* the workbook load_excel reads: its sheets, in order
    pc,          \* the call in progress: "idle"; load_excel "loading", "returned",
                 \* "raised"; _normalize_column_names "normalize", "normalized"
    pos,         \* load_excel: the number of sheets processed so far
    registered,  \* load_excel: the names registered so far
    frame,       \* load_excel: what the latest sheet's processing computed
    before,      \* load_excel: the registry's dict when the call was made
                 \* (history)
    columns,     \* _normalize_column_names: the column labels of df
    normalized,  \* _normalize_column_names: the result, once it has run
    files,       \* export_to_csv: the names of the files in output_dir
    exported     \* export_to_csv: the call made, the registry's names at the
                 \* call (history) and how the call ended

regVars == <<tables, last, recent>>

loadVars == <<xls, pc, pos, registered, frame, before>>

normVars == <<columns, normalized>>

exportVars == <<files, exported>>

vars ==
    <<tables, last, recent, xls, pc, pos, registered, frame, before, columns,
      normalized, files, exported>>

(***************************************************************************)
(* Bounds and input sets of the registry model.                            *)
(***************************************************************************)
NumFrames == 2

Names == {<<"a">>, <<"b">>, <<"c">>}

DataFrames == 1..NumFrames

MetaKeys == {"file_path", "sheet"}

\* The mappings a caller may pass as metadata: one key each.
Mappings == {[k \in {key} |-> "v"] : key \in MetaKeys}

\* Optional[Mapping]: None or a mapping.
NoneArg == [isNone |-> TRUE, map |-> <<>>]

Some(m) == [isNone |-> FALSE, map |-> m]

MetadataArgs == {NoneArg} \cup {Some(m) : m \in Mappings}

(***************************************************************************)
(* A Python dict: a sequence of <<key, value>> items in insertion order,   *)
(* keys pairwise distinct.                                                 *)
(***************************************************************************)
EmptyDict == <<>>

DictKeys(d) == [j \in 1..Len(d) |-> d[j][1]]

DictHas(d, k) == \E j \in 1..Len(d) : d[j][1] = k

DictIndex(d, k) == CHOOSE j \in 1..Len(d) : d[j][1] = k

RemoveAt(s, j) == SubSeq(s, 1, j - 1) \o SubSeq(s, j + 1, Len(s))

\* d[k] = v moving the key to the end on overwrite (an OrderedDict.move_to_end bug).
DictSetItemMoveToEnd(d, k, v) ==
    IF DictHas(d, k) THEN Append(RemoveAt(d, DictIndex(d, k)), <<k, v>>)
    ELSE Append(d, <<k, v>>)

\* d[k] = v: an existing key keeps its position, a new key goes last.
DictSetItem(d, k, v) ==
    IF DictHas(d, k) THEN [d EXCEPT ![DictIndex(d, k)] = <<k, v>>]
    ELSE Append(d, <<k, v>>)

\* d[k]: the value, or KeyError.
DictGetItem(d, k) ==
    IF DictHas(d, k) THEN [raised |-> FALSE, value |-> d[DictIndex(d, k)][2]]
    ELSE [raised |-> TRUE, value |-> "KeyError"]

\* del d[k] that ignores a missing key (d.pop(k, None)).
DictDelItemSilent(d, k) ==
    IF DictHas(d, k) THEN [raised |-> FALSE, dict |-> RemoveAt(d, DictIndex(d, k))]
    ELSE [raised |-> FALSE, dict |-> d]

\* del d[k]: the dict without the key, or KeyError and the dict untouched.
DictDelItem(d, k) ==
    IF DictHas(d, k) THEN [raised |-> FALSE, dict |-> RemoveAt(d, DictIndex(d, k))]
    ELSE [raised |-> TRUE, dict |-> d]

(***************************************************************************)
(* DataFrameEntry and the registry's methods.                              *)
(***************************************************************************)
\* dict(metadata or {}): None becomes the empty mapping, a mapping is copied.
MetadataCopy(arg) == IF arg.isNone THEN <<>> ELSE arg.map

DataFrameEntry(dataframe, metadata) == [dataframe |-> dataframe, metadata |-> metadata]

\* register that merges the new metadata over the old entry's metadata.
RegisterMerging(d, name, dataframe, arg) ==
    LET new == MetadataCopy(arg)
        old == IF DictHas(d, name) THEN DictGetItem(d, name).value.metadata ELSE <<>>
        merged == [k \in DOMAIN old \cup DOMAIN new |->
                       IF k \in DOMAIN new THEN new[k] ELSE old[k]]
    IN  DictSetItem(d, name, DataFrameEntry(dataframe, merged))

\* DataFrameRegistry.register: the dict after the call.
RegisterResult(d, name, dataframe, arg) ==
    DictSetItem(d, name, DataFrameEntry(dataframe, MetadataCopy(arg)))

\* A call as the caller sees it: what was called, whether it raised, what it
\* returned, and (history) what the latest call on that name had been before.
Call(op, name, raised, result, prior) ==
    [op |-> op, name |-> name, raised |-> raised, result |-> result, prior |-> prior]

Never == [kind |-> "never"]

Removed == [kind |-> "removed"]

Registered(dataframe, arg) == [kind |-> "registered", dataframe |-> dataframe, arg |-> arg]

Register(name, dataframe, arg) ==
    /\ tables' = RegisterResult(tables, name, dataframe, arg)
    /\ last' = Call("register", name, FALSE, "None", recent[name])
    /\ recent' = [recent EXCEPT ![name] = Registered(dataframe, arg)]
    /\ UNCHANGED <<loadVars, normVars, exportVars>>

\* DataFrameRegistry.get: self._tables[name].dataframe
GetResult(d, name) ==
    LET r == DictGetItem(d, name)
    IN  IF r.raised THEN r ELSE [raised |-> FALSE, value |-> r.value.dataframe]

\* DataFrameRegistry.get_metadata: self._tables[name].metadata
GetMetadataResult(d, name) ==
    LET r == DictGetItem(d, name)
    IN  IF r.raised THEN r ELSE [raised |-> FALSE, value |-> r.value.metadata]

Get(name) ==
    LET r == GetResult(tables, name)
    IN  /\ last' = Call("get", name, r.raised, r.value, recent[name])
        /\ UNCHANGED <<tables, recent, loadVars, normVars, exportVars>>

GetMetadata(name) ==
    LET r == GetMetadataResult(tables, name)
    IN  /\ last' = Call("get_metadata", name, r.raised, r.value, recent[name])
        /\ UNCHANGED <<tables, recent, loadVars, normVars, exportVars>>

\* DataFrameRegistry.list: list(self._tables.keys())
ListResult(d) == DictKeys(d)

List ==
    /\ last' = Call("list", <<>>, FALSE, ListResult(tables), Never)
    /\ UNCHANGED <<tables, recent, loadVars, normVars, exportVars>>

Unregister(name) ==
    LET r == DictDelItem(tables, name)
    IN  /\ tables' = r.dict
        /\ last' = Call("unregister", name, r.raised,
                        IF r.raised THEN "KeyError" ELSE "None",
                        recent[name])
        /\ recent' = IF r.raised THEN recent ELSE [recent EXCEPT ![name] = Removed]
        /\ UNCHANGED <<loadVars, normVars, exportVars>>

\* A fresh registry, on which no call has been made.
RegistryInit ==
    /\ tables = EmptyDict
    /\ last = Call("init", <<>>, FALSE, "None", Never)
    /\ recent = [n \in Names |-> Never]

\* No load_excel call is in progress.
LoadIdle ==
    /\ xls = <<>>
    /\ pc = "idle"
    /\ pos = 0
    /\ registered = <<>>
    /\ frame = <<>>
    /\ before = EmptyDict

\* No _normalize_column_names call is in progress.
NormIdle ==
    /\ columns = <<>>
    /\ normalized = <<>>

\* No export_to_csv call has been made; output_dir is empty.
ExportIdle ==
    /\ files = {}
    /\ exported = [outcome |-> "idle"]

Init ==
    /\ RegistryInit
    /\ LoadIdle
    /\ NormIdle
    /\ ExportIdle

Next ==
    \/ \E name \in Names, dataframe \in DataFrames, arg \in MetadataArgs :
           Register(name, dataframe, arg)
    \/ \E name \in Names : Get(name)
    \/ \E name \in Names : GetMetadata(name)
    \/ List
    \/ \E name \in Names : Unregister(name)

Spec == Init /\ [][Next]_vars

(***************************************************************************)
(* Claims about the registry.                                              *)
(***************************************************************************)
Occurrences(d, k) == Cardinality({j \in 1..Len(d) : d[j][1] = k})

Without(s, x) == SelectSeq(s, LAMBDA y : y # x)

\* C1: a name whose latest register/unregister call was register(name, df, md)
\* has exactly one entry; get(name) returns df and get_metadata(name) returns
\* exactly the mapping md (empty for None), with no key of an earlier
\* registration left over.
C1_LastWriteWins ==
    \A n \in Names :
        recent[n].kind = "registered" =>
            /\ Occurrences(tables, n) = 1
            /\ GetResult(tables, n) = [raised |-> FALSE, value |-> recent[n].dataframe]
            /\ GetMetadataResult(tables, n) =
                   [raised |-> FALSE,
                    value |-> IF recent[n].arg.isNone THEN <<>> ELSE recent[n].arg.map]

\* C1 witness: a name registered with metadata {file_path} has just been
\* registered again with another table and metadata {sheet}.
C1_Witness ==
    /\ last.op = "register"
    /\ last.prior.kind = "registered"
    /\ last.prior.dataframe # recent[last.name].dataframe
    /\ ~last.prior.arg.isNone
    /\ DOMAIN last.prior.arg.map = {"file_path"}
    /\ ~recent[last.name].arg.isNone
    /\ DOMAIN recent[last.name].arg.map = {"sheet"}

\* C2: get, get_metadata and unregister of a name that is not registered raise
\* KeyError and leave the entries, their contents and their order unchanged.
C2_AbsentNameRaises ==
    [][(/\ last'.op \in {"get", "get_metadata", "unregister"}
        /\ ~DictHas(tables, last'.name))
       => (/\ last'.raised
           /\ last'.result = "KeyError"
           /\ tables' = tables
           /\ ListResult(tables') = ListResult(tables))]_vars

\* C2 witness: unregister of a name that was registered and since unregistered
\* has raised, with other entries present.
C2_Witness ==
    /\ last.op = "unregister"
    /\ last.raised
    /\ last.prior.kind = "removed"
    /\ Len(tables) >= 1

\* C3: list() is the registered names, each once, in insertion order: register
\* of a present name keeps the order as it is, register of an absent name
\* (never registered, or unregistered) puts it last, unregister removes the
\* name and keeps the others in order.
C3_InsertionOrder ==
    [][/\ (last'.op = "register" =>
              ListResult(tables') =
                  IF DictHas(tables, last'.name) THEN ListResult(tables)
                  ELSE Append(ListResult(tables), last'.name))
       /\ (last'.op = "unregister" /\ ~last'.raised =>
              ListResult(tables') = Without(ListResult(tables), last'.name))
       /\ (last'.op = "list" =>
              /\ last'.result = ListResult(tables)
              /\ tables' = tables
              /\ \A n \in Names :
                     Cardinality({j \in 1..Len(last'.result) : last'.result[j] = n})
                         = IF recent'[n].kind = "registered" THEN 1 ELSE 0)]_vars

\* C3 witness: the first of several registered names has just been registered
\* again, and a name that had been unregistered was registered after it.
C3_Witness ==
    /\ last.op = "register"
    /\ last.prior.kind = "registered"
    /\ Len(tables) = 3
    /\ ListResult(tables)[1] = last.name

\* C3 witness of the other case: a name that had been unregistered has been
\* registered again and is listed last.
C3_WitnessReRegistered ==
    /\ last.op = "register"
    /\ last.prior.kind = "removed"
    /\ Len(tables) = 3
    /\ ListResult(tables)[3] = last.name

(***************************************************************************)
(* Python str operations, on sequences of one-character strings.           *)
(***************************************************************************)
UpperCase == <<"A", "B", "C", "D", "E", "F", "G", "H", "I", "J", "K", "L", "M",
               "N", "O", "P", "Q", "R", "S", "T", "U", "V", "W", "X", "Y", "Z">>

LowerCase == <<"a", "b", "c", "d", "e", "f", "g", "h", "i", "j", "k", "l", "m",
               "n", "o", "p", "q", "r", "s", "t", "u", "v", "w", "x", "y", "z">>

\* The characters str.strip() removes and str.isspace() accepts.
Whitespace == {" ", "\t", "\n"}

LowerMap == [c \in {UpperCase[i] : i \in 1..Len(UpperCase)} |->
                 LowerCase[CHOOSE i \in 1..Len(UpperCase) : UpperCase[i] = c]]

LowerChar(c) == IF c \in DOMAIN LowerMap THEN LowerMap[c] ELSE c

\* str.lower()
Lower(s) == [i \in 1..Len(s) |-> LowerChar(s[i])]

\* str.strip()
Strip(s) ==
    LET keep == {i \in 1..Len(s) : s[i] \notin Whitespace}
    IN  IF keep = {} THEN <<>>
        ELSE SubSeq(s, CHOOSE i \in keep : \A j \in keep : i <= j,
                       CHOOSE i \in keep : \A j \in keep : i >= j)

\* str.replace(old, new) for one-character old and new.
Replace(s, old, new) == [i \in 1..Len(s) |-> IF s[i] = old THEN new ELSE s[i]]

Digits == <<"0", "1", "2", "3", "4", "5", "6", "7", "8", "9">>

RECURSIVE StrOfInt(_)
\* str(n) of a non-negative int.
StrOfInt(n) ==
    IF n < 10 THEN <<Digits[n + 1]>>
    ELSE StrOfInt(n \div 10) \o <<Digits[(n % 10) + 1]>>

RECURSIVE Join(_, _)
\* sep.join(parts)
Join(sep, parts) ==
    IF Len(parts) = 0 THEN <<>>
    ELSE IF Len(parts) = 1 THEN parts[1]
    ELSE parts[1] \o sep \o Join(sep, Tail(parts))

\* A base name that keeps the label's casing.
BaseNameKeepingCase(col) == Replace(Strip(col), " ", "_")

(***************************************************************************)
(* _normalize_column_names                                                 *)
(***************************************************************************)
\* str(col).strip().lower().replace(" ", "_")
BaseName(col) == Replace(Lower(Strip(col)), " ", "_")

\* The loop body that numbers every column by its position, not per base name.
NormalizeStepByPosition(state, col) ==
    LET base == BaseName(col)
    IN  IF \A j \in 1..Len(state.seen) : state.seen[j][1] # base
        THEN [seen |-> DictSetItem(state.seen, base, 0),
              new_columns |-> Append(state.new_columns, base)]
        ELSE [seen |-> state.seen,
              new_columns |-> Append(state.new_columns,
                                     base \o <<"_">> \o StrOfInt(Len(state.new_columns)))]

\* One iteration of the loop over df.columns: seen and new_columns afterwards.
NormalizeStep(state, col) ==
    LET base == BaseName(col)
    IN  IF ~DictHas(state.seen, base)
        THEN [seen |-> DictSetItem(state.seen, base, 0),
              new_columns |-> Append(state.new_columns, base)]
        ELSE LET n == DictGetItem(state.seen, base).value + 1
             IN  [seen |-> DictSetItem(state.seen, base, n),
                  new_columns |-> Append(state.new_columns,
                                         base \o <<"_">> \o StrOfInt(n))]

RECURSIVE NormalizeLoop(_, _)
NormalizeLoop(state, cols) ==
    IF Len(cols) = 0 THEN state
    ELSE NormalizeLoop(NormalizeStep(state, Head(cols)), Tail(cols))

\* The column labels of _normalize_column_names(df), given df's labels.
NormalizeColumnNames(cols) ==
    NormalizeLoop([seen |-> EmptyDict, new_columns |-> <<>>], cols).new_columns

(***************************************************************************)
(* The normaliser on its own: a frame with up to MaxColumns columns whose  *)
(* labels are drawn from RawNames.                                         *)
(***************************************************************************)
MaxColumns == 3

RawNames ==
    { <<"P", "l", "o", "t">>,
      <<"p", "l", "o", "t">>,
      <<"P", "L", "O", "T">>,
      <<" ", "p", "l", "o", "t", " ">>,
      <<"p", "l", "o", "t", "_", "1">>,
      <<"a", " ", "b">>,
      <<"a", " ", " ", "b">>,
      <<"a", "\t", "b">>,
      <<>> }

Normalize ==
    /\ pc = "normalize"
    /\ normalized' = NormalizeColumnNames(columns)
    /\ pc' = "normalized"
    /\ UNCHANGED <<regVars, xls, pos, registered, frame, before, columns, exportVars>>

NormInit ==
    /\ RegistryInit
    /\ xls = <<>>
    /\ pos = 0
    /\ registered = <<>>
    /\ frame = <<>>
    /\ before = EmptyDict
    /\ pc = "normalize"
    /\ normalized = <<>>
    /\ ExportIdle
    /\ \E n \in 0..MaxColumns : columns \in [1..n -> RawNames]

NormNext == Normalize

SpecNorm == NormInit /\ [][NormNext]_vars

\* The number of columns before position i (1-based) with the base name of i.
EarlierSameBase(cols, i) ==
    Cardinality({j \in 1..(i - 1) : BaseName(cols[j]) = BaseName(cols[i])})

\* C10: column by column, left to right: the first column of a base name gets
\* the bare base name, the N-th later column of that base gets base_N; the
\* labels Plot, plot, PLOT become plot, plot_1, plot_2.
C10_CollisionSuffix ==
    pc = "normalized" =>
        /\ Len(normalized) = Len(columns)
        /\ \A i \in 1..Len(columns) :
               LET n == EarlierSameBase(columns, i)
               IN  normalized[i] =
                       IF n = 0 THEN BaseName(columns[i])
                       ELSE BaseName(columns[i]) \o <<"_">> \o StrOfInt(n)
        /\ (columns = << <<"P", "l", "o", "t">>, <<"p", "l", "o", "t">>,
                         <<"P", "L", "O", "T">> >>
              => normalized = << <<"p", "l", "o", "t">>,
                                 <<"p", "l", "o", "t", "_", "1">>,
                                 <<"p", "l", "o", "t", "_", "2">> >>)

\* C10 witness: Plot, plot, PLOT has been normalised.
C10_Witness ==
    /\ pc = "normalized"
    /\ columns = << <<"P", "l", "o", "t">>, <<"p", "l", "o", "t">>,
                    <<"P", "L", "O", "T">> >>
    /\ normalized[3] = <<"p", "l", "o", "t", "_", "2">>

(***************************************************************************)
(* load_excel: the cells of a sheet as pandas hands them over.  A cell is  *)
(* missing (NaN), a str, or a number; text is what str(v) returns.         *)
(***************************************************************************)
NaN == [kind |-> "nan", text |-> <<"n", "a", "n">>]

StrCell(s) == [kind |-> "str", text |-> s]

NumCell(s) == [kind |-> "num", text |-> s]

\* pd.notnull(v)
NotNull(v) == v.kind # "nan"

\* isinstance(v, str)
IsStr(v) == v.kind = "str"

\* isinstance(v, (int, float)) and pd.notnull(v)
IsNum(v) == v.kind = "num"

\* str(v)
Str(v) == v.text

\* df.shape[1]
Width(df) == IF Len(df) = 0 THEN 0 ELSE Len(df[1])

\* df.iloc[idx], idx counted from 0 and inside the frame.
Row(df, idx) == df[idx + 1]

\* row.count(): the number of non-null cells.
Count(row) == Cardinality({c \in 1..Len(row) : NotNull(row[c])})

Min(a, b) == IF a <= b THEN a ELSE b

\* anchors
Anchors ==
    { <<"t", "r", "a", "t", "a", "m", "e", "n", "t", "o">>,
      <<"p", "a", "r", "c", "e", "l", "a">>,
      <<"r", "a", "m", "o">>,
      <<"b", "l", "o", "c", "o">>,
      <<"n", "o_acute">>,       \* the letter o with an acute accent, as one character
      <<"d", "a", "t", "a">> }

\* nrows=20
PeekRows == 20

\* min(start_idx + 3, 20): the offset and the cap
HeaderSpan == 3

HeaderCap == 20

\* xls.parse(sheet_name, header=None, nrows=20)
Peek(grid) == SubSeq(grid, 1, Min(Len(grid), PeekRows))

(***************************************************************************)
(* 1. The header start.                                                    *)
(***************************************************************************)
\* row_vals = [str(v).lower() for v in row if pd.notnull(v)]
RowVals(row) == {Lower(Str(row[c])) : c \in {c \in 1..Len(row) : NotNull(row[c])}}

\* The match on str(v) without .lower().
HasAnchorCaseSensitive(row) ==
    \E anchor \in Anchors :
        \E c \in 1..Len(row) : NotNull(row[c]) /\ Str(row[c]) = anchor

\* any(anchor in row_vals for anchor in anchors)
HasAnchor(row) ==
    LET row_vals == RowVals(row)
    IN  \E anchor \in Anchors : anchor \in row_vals

\* The test with >= for >.
IsDenseOrHalf(row, df_peek) == 2 * Count(row) >= Width(df_peek)

\* row.count() > df_peek.shape[1] * 0.5
IsDense(row, df_peek) == 2 * Count(row) > Width(df_peek)

\* The row test of the scan: anchor match, else density.
StartsHeader(row, df_peek) == HasAnchor(row) \/ IsDense(row, df_peek)

RECURSIVE ScanFrom(_, _)
\* for idx, row in df_peek.iterrows(): ... break; start_idx stays 0 otherwise.
ScanFrom(df_peek, idx) ==
    IF idx >= Len(df_peek) THEN 0
    ELSE IF StartsHeader(Row(df_peek, idx), df_peek) THEN idx
    ELSE ScanFrom(df_peek, idx + 1)

\* start_idx
HeaderStart(df_peek) == ScanFrom(df_peek, 0)

(***************************************************************************)
(* 2. The header block.                                                    *)
(***************************************************************************)
\* str_count, num_count
StrCount(row) == Cardinality({c \in 1..Len(row) : IsStr(row[c])})

NumCount(row) == Cardinality({c \in 1..Len(row) : IsNum(row[c])})

\* The test with >= for >.
IsSubHeaderOrEqual(row) == StrCount(row) >= NumCount(row) /\ Count(row) > 0

\* str_count > num_count and row.count() > 0
IsSubHeader(row) == StrCount(row) > NumCount(row) /\ Count(row) > 0

RECURSIVE ExtendSkipping(_, _, _, _)
\* The loop with continue for break: a data row is skipped, not the end.
ExtendSkipping(df_peek, next_idx, stop, header_rows) ==
    IF next_idx >= stop THEN [raised |-> FALSE, header_rows |-> header_rows]
    ELSE IF next_idx >= Len(df_peek) THEN [raised |-> TRUE, error |-> "IndexError"]
    ELSE IF IsSubHeader(Row(df_peek, next_idx))
         THEN ExtendSkipping(df_peek, next_idx + 1, stop, Append(header_rows, next_idx))
         ELSE ExtendSkipping(df_peek, next_idx + 1, stop, header_rows)

RECURSIVE Extend(_, _, _, _)
\* for next_idx in range(next_idx, stop): df_peek.iloc[next_idx] raises
\* IndexError past the last row; a sub-header row is appended, any other row
\* ends the loop.
Extend(df_peek, next_idx, stop, header_rows) ==
    IF next_idx >= stop THEN [raised |-> FALSE, header_rows |-> header_rows]
    ELSE IF next_idx >= Len(df_peek) THEN [raised |-> TRUE, error |-> "IndexError"]
    ELSE IF IsSubHeader(Row(df_peek, next_idx))
         THEN Extend(df_peek, next_idx + 1, stop, Append(header_rows, next_idx))
         ELSE [raised |-> FALSE, header_rows |-> header_rows]

\* The header block with the loop running over range(start_idx + 1,
\* min(start_idx + span, 20)); load_excel has span = 3.
HeaderRowsWithin(df_peek, start_idx, span) ==
    Extend(df_peek, start_idx + 1, Min(start_idx + span, HeaderCap), <<start_idx>>)

\* header_rows of load_excel, or the IndexError.
HeaderRows(df_peek, start_idx) == HeaderRowsWithin(df_peek, start_idx, HeaderSpan)

(***************************************************************************)
(* 3. The merged header.                                                   *)
(***************************************************************************)
\* One row of .ffill(axis=1): a null cell takes the nearest non-null on its left.
FFill(row) ==
    [c \in 1..Len(row) |->
        LET left == {j \in 1..c : NotNull(row[j])}
        IN  IF left = {} THEN row[c]
            ELSE row[CHOOSE j \in left : \A k \in left : k <= j]]

\* One row of .fillna("")
FillNa(row) == [c \in 1..Len(row) |-> IF NotNull(row[c]) THEN row[c] ELSE StrCell(<<>>)]

\* header_df = df_peek.iloc[header_rows].ffill(axis=1).fillna("")
HeaderDf(df_peek, header_rows) ==
    [r \in 1..Len(header_rows) |-> FillNa(FFill(Row(df_peek, header_rows[r])))]

RECURSIVE PartsFromCaseSensitive(_, _, _, _)
\* The loop with the duplicate test on val itself, not on val.lower().
PartsFromCaseSensitive(header_df, col, r, parts) ==
    IF r > Len(header_df) THEN parts
    ELSE LET val == Strip(Str(header_df[r][col]))
         IN  IF val # <<>> /\ val \notin {parts[j] : j \in 1..Len(parts)}
             THEN PartsFromCaseSensitive(header_df, col, r + 1, Append(parts, val))
             ELSE PartsFromCaseSensitive(header_df, col, r + 1, parts)

RECURSIVE PartsFrom(_, _, _, _)
\* for r in range(header_df.shape[0]): parts of column col (counted from 1 here).
PartsFrom(header_df, col, r, parts) ==
    IF r > Len(header_df) THEN parts
    ELSE LET val == Strip(Str(header_df[r][col]))
         IN  IF val # <<>> /\ Lower(val) \notin {Lower(parts[j]) : j \in 1..Len(parts)}
             THEN PartsFrom(header_df, col, r + 1, Append(parts, val))
             ELSE PartsFrom(header_df, col, r + 1, parts)

Unnamed == <<"u", "n", "n", "a", "m", "e", "d", "_">>

\* "_".join(parts) if parts else f"unnamed_{col}", col counted from 0.
ColumnName(header_df, col) ==
    LET parts == PartsFrom(header_df, col + 1, 1, <<>>)
    IN  IF Len(parts) > 0 THEN Join(<<"_">>, parts) ELSE Unnamed \o StrOfInt(col)

\* new_columns
NewColumns(header_df) == [c \in 1..Width(header_df) |-> ColumnName(header_df, c - 1)]

(***************************************************************************)
(* 4, 5. The data below the header block, cleaned and named.               *)
(***************************************************************************)
\* A re-read that skips max(header_rows) rows only, keeping the last header row.
RereadFromHeader(grid, header_rows) ==
    SubSeq(grid, header_rows[Len(header_rows)] + 1, Len(grid))

\* xls.parse(sheet_name, skiprows=max(header_rows) + 1, header=None): the rows
\* from index max(header_rows) + 1 on; header_rows is ascending.
Reread(grid, header_rows) ==
    SubSeq(grid, header_rows[Len(header_rows)] + 2, Len(grid))

\* .dropna(how="any"): the rows without a null cell.
DropNaRowsAny(rows) == SelectSeq(rows, LAMBDA row : Count(row) = Len(row))

\* .dropna(how="all"): the rows with a non-null cell.
DropNaRows(rows) == SelectSeq(rows, LAMBDA row : Count(row) > 0)

\* The positions of the columns .dropna(axis=1, how="all") keeps, ascending.
RECURSIVE KeptFrom(_, _, _)
KeptFrom(rows, c, width) ==
    IF c > width THEN <<>>
    ELSE IF \E i \in 1..Len(rows) : NotNull(rows[i][c])
         THEN <<c>> \o KeptFrom(rows, c + 1, width)
         ELSE KeptFrom(rows, c + 1, width)

Pick(seq, positions) == [j \in 1..Len(positions) |-> seq[positions[j]]]

DataFrame(cols, rows) == [columns |-> cols, rows |-> rows]

\* A cleaning that gives the columns their normalised names first and drops
\* the empty rows and columns afterwards.
CleanNormalizedFirst(df) ==
    LET cols == NormalizeColumnNames(df.columns)
        rows == DropNaRows(df.rows)
        kept == KeptFrom(rows, 1, Len(df.columns))
    IN  DataFrame(Pick(cols, kept), [i \in 1..Len(rows) |-> Pick(rows[i], kept)])

\* df.dropna(how="all").dropna(axis=1, how="all")
Clean(df) ==
    LET rows == DropNaRows(df.rows)
        kept == KeptFrom(rows, 1, Len(df.columns))
    IN  DataFrame(Pick(df.columns, kept), [i \in 1..Len(rows) |-> Pick(rows[i], kept)])

\* _normalize_column_names(df)
NormalizeFrame(df) == DataFrame(NormalizeColumnNames(df.columns), df.rows)

\* A length test that lets a frame without rows take any number of names.
ColumnsMismatchUnlessEmpty(rows, new_columns) ==
    Len(rows) > 0 /\ Width(rows) # Len(new_columns)

\* df.columns = new_columns raises ValueError unless the frame has exactly
\* len(new_columns) columns; a frame read from no rows has none.
ColumnsMismatch(rows, new_columns) == Width(rows) # Len(new_columns)

Raised(error, start_idx, header_rows, new_columns) ==
    [raised |-> TRUE, error |-> error, start_idx |-> start_idx,
     header_rows |-> header_rows, new_columns |-> new_columns,
     df |-> DataFrame(<<>>, <<>>)]

\* The body of the loop over the sheets, up to the cleaned and named frame:
\* what it computed, and the exception if one was raised.
LoadSheet(grid) ==
    LET df_peek == Peek(grid)
        start_idx == HeaderStart(df_peek)
        block == HeaderRows(df_peek, start_idx)
    IN  IF block.raised THEN Raised(block.error, start_idx, <<>>, <<>>)
        ELSE LET header_rows == block.header_rows
                 new_columns == NewColumns(HeaderDf(df_peek, header_rows))
                 rows == Reread(grid, header_rows)
             IN  \* df.columns = new_columns
                 IF ColumnsMismatch(rows, new_columns)
                 THEN Raised("ValueError", start_idx, header_rows, new_columns)
                 ELSE [raised |-> FALSE, error |-> "None", start_idx |-> start_idx,
                       header_rows |-> header_rows, new_columns |-> new_columns,
                       df |-> NormalizeFrame(Clean(DataFrame(new_columns, rows)))]

\* file_path and its stem
FilePath == <<"f", ".", "x", "l", "s", "x">>

FileStem == <<"f">>

\* A table name made of the sheet name as written, lowercased only.
TableNameUntrimmed(sheet_name) == FileStem \o <<"_", "_">> \o Lower(sheet_name)

\* f"{file_path.stem}__{sheet_name.strip().lower()}"
TableName(sheet_name) == FileStem \o <<"_", "_">> \o Lower(Strip(sheet_name))

\* The metadata load_excel registers with a sheet's frame.
SheetMetadata(sheet_name, header_rows) ==
    [file_path |-> FilePath, sheet |-> sheet_name, header_rows |-> header_rows]

\* A loop over the sheets that passes over a sheet whose processing raised
\* and goes on with the next one.
LoadExcelSheetSkipping ==
    /\ pc = "loading"
    /\ pos < Len(xls)
    /\ frame' = LoadSheet(xls[pos + 1].grid)
    /\ IF frame'.raised
       THEN UNCHANGED <<tables, registered>>
       ELSE LET sheet_name == xls[pos + 1].name
            IN  /\ tables' = RegisterResult(tables, TableName(sheet_name), frame'.df,
                                  Some(SheetMetadata(sheet_name, frame'.header_rows)))
                /\ registered' = Append(registered, TableName(sheet_name))
    /\ pos' = pos + 1
    /\ pc' = IF pos + 1 = Len(xls) THEN "returned" ELSE "loading"
    /\ UNCHANGED <<last, recent, xls, before, normVars, exportVars>>

\* A loop over the sheets that, when a sheet's processing raises, unregisters
\* the names it has registered so far before the exception leaves.
LoadExcelSheetRollingBack ==
    /\ pc = "loading"
    /\ pos < Len(xls)
    /\ frame' = LoadSheet(xls[pos + 1].grid)
    /\ IF frame'.raised
       THEN /\ pc' = "raised"
            /\ tables' = SelectSeq(tables,
                             LAMBDA item : \A k \in 1..Len(registered) :
                                              registered[k] # item[1])
            /\ UNCHANGED <<registered, pos>>
       ELSE LET sheet_name == xls[pos + 1].name
            IN  /\ tables' = RegisterResult(tables, TableName(sheet_name), frame'.df,
                                  Some(SheetMetadata(sheet_name, frame'.header_rows)))
                /\ registered' = Append(registered, TableName(sheet_name))
                /\ pos' = pos + 1
                /\ pc' = IF pos + 1 = Len(xls) THEN "returned" ELSE "loading"
    /\ UNCHANGED <<last, recent, xls, before, normVars, exportVars>>

\* One iteration of the loop over the sheets: the sheet is read, its header
\* inferred, its frame registered; an exception ends load_excel.  After the
\* last sheet load_excel returns registered.
LoadExcelSheet ==
    /\ pc = "loading"
    /\ pos < Len(xls)
    /\ frame' = LoadSheet(xls[pos + 1].grid)
    /\ IF frame'.raised
       THEN /\ pc' = "raised"
            /\ UNCHANGED <<tables, registered, pos>>
       ELSE LET sheet_name == xls[pos + 1].name
            IN  /\ tables' = RegisterResult(tables, TableName(sheet_name), frame'.df,
                                  Some(SheetMetadata(sheet_name, frame'.header_rows)))
                /\ registered' = Append(registered, TableName(sheet_name))
                /\ pos' = pos + 1
                /\ pc' = IF pos + 1 = Len(xls) THEN "returned" ELSE "loading"
    /\ UNCHANGED <<last, recent, xls, before, normVars, exportVars>>

LoadNext == LoadExcelSheet

(***************************************************************************)
(* The sheets the header inference is checked on.  A grid has at most a    *)
(* bounded number of cells, in any shape; the sheet may have blank rows    *)
(* above it, enough of them to push it to the edge of the peeked rows.     *)
(***************************************************************************)
Ramo == <<"R", "a", "m", "o">>

SpRamo == <<" ", "r", "a", "m", "o">>

Shapes(maxCells) ==
    {sh \in (0..maxCells) \X (1..maxCells) : sh[1] * sh[2] <= maxCells}

Grids(cells, maxCells) ==
    UNION {[1..sh[1] -> [1..sh[2] -> cells]] : sh \in Shapes(maxCells)}

BlankRow(width) == [c \in 1..width |-> NaN]

BlankRowsAbove(n, grid) == [i \in 1..n |-> BlankRow(Width(grid))] \o grid

SheetName == <<" ", "S", "1">>

Workbook(grid) == <<[name |-> SheetName, grid |-> grid]>>

\* load_excel has been called on a workbook, with a fresh registry.
LoadStart ==
    /\ RegistryInit
    /\ NormIdle
    /\ ExportIdle
    /\ pc = "loading"
    /\ pos = 0
    /\ registered = <<>>
    /\ frame = <<>>
    /\ before = tables

MaxHeaderCells == 6

HeaderCells == {NaN, StrCell(Ramo), StrCell(SpRamo), NumCell(<<"1">>)}

BlanksAbove == {0} \cup ((PeekRows - 3)..PeekRows)

HeaderInit ==
    /\ LoadStart
    /\ \E n \in BlanksAbove, grid \in Grids(HeaderCells, MaxHeaderCells) :
           xls = Workbook(BlankRowsAbove(n, grid))

SpecHeader == HeaderInit /\ [][LoadNext]_vars

(***************************************************************************)
(* Claims about the header start and the header block, stated on the       *)
(* sheet that was read and what load_excel computed from it.               *)
(***************************************************************************)
\* The sheet load_excel has processed last, and the rows it peeked at.
TheGrid == xls[1].grid

Window == Min(Len(TheGrid), PeekRows)

Processed == pc \in {"returned", "raised"}

\* Row idx (from 0) holds a cell whose lowercased value is an anchor keyword.
AnchorRow(idx) ==
    \E c \in 1..Len(TheGrid[idx + 1]) :
        /\ TheGrid[idx + 1][c].kind # "nan"
        /\ Lower(TheGrid[idx + 1][c].text) \in Anchors

NonMissing(idx) ==
    Cardinality({c \in 1..Len(TheGrid[idx + 1]) : TheGrid[idx + 1][c].kind # "nan"})

\* At most 50% of the cells of row idx are non-missing.
SparseRow(idx) == 2 * NonMissing(idx) <= Len(TheGrid[idx + 1])

\* Row k is the only anchor row of the sheet and every row before it is sparse.
OnlyAnchorAfterSparse(k) ==
    /\ AnchorRow(k)
    /\ \A j \in 0..(Len(TheGrid) - 1) : j # k => ~AnchorRow(j)
    /\ \A j \in 0..(k - 1) : SparseRow(j)

\* C4 as claimed: for every sheet whose only anchor row is row k, all rows
\* before k being sparse, the located start index is k.
C4_OnlyAnchorRowIsStart ==
    Processed =>
        \A k \in 0..(Len(TheGrid) - 1) :
            OnlyAnchorAfterSparse(k) => frame.start_idx = k

\* C4 amended: ... and k is among the first 20 rows, the located start index
\* is k.
C4_OnlyAnchorRowInWindowIsStart ==
    Processed =>
        \A k \in 0..(Window - 1) :
            OnlyAnchorAfterSparse(k) => frame.start_idx = k

\* C4 witness: a sparse anchor row below a non-blank sparse row was located.
C4_Witness ==
    /\ Processed
    /\ \E k \in 1..(Window - 1) :
           /\ OnlyAnchorAfterSparse(k)
           /\ SparseRow(k)
           /\ NonMissing(k - 1) > 0
           /\ frame.start_idx = k

\* C5 as claimed: when a dense row i without an anchor comes before the first
\* anchor row k, both among the first 20 rows, the located start index is k.
C5_AnchorBeatsEarlierDenseRow ==
    Processed =>
        \A i \in 0..(Window - 1), k \in 0..(Window - 1) :
            (/\ i < k
             /\ ~SparseRow(i)
             /\ AnchorRow(k)
             /\ \A j \in 0..(k - 1) : ~AnchorRow(j))
            => frame.start_idx = k

\* C6: when none of the first 20 rows holds an anchor keyword and none has
\* more than 50% of its cells non-missing, the located start index is 0.
C6_NoAnchorNoDenseRowGivesZero ==
    Processed =>
        ((\A j \in 0..(Window - 1) : ~AnchorRow(j) /\ SparseRow(j))
            => frame.start_idx = 0)

\* C6 witness: a sheet of several rows, not all blank, fell back to row 0.
C6_Witness ==
    /\ Processed
    /\ Window >= 2
    /\ \A j \in 0..(Window - 1) : ~AnchorRow(j) /\ SparseRow(j)
    /\ NonMissing(Window - 1) > 0
    /\ frame.start_idx = 0

\* Row idx exists among the peeked rows, has a non-missing cell and strictly
\* more text cells than numeric cells.
LooksLikeHeader(idx) ==
    /\ idx < Window
    /\ Cardinality({c \in 1..Len(TheGrid[idx + 1]) : TheGrid[idx + 1][c].kind = "str"})
         > Cardinality({c \in 1..Len(TheGrid[idx + 1]) : TheGrid[idx + 1][c].kind = "num"})
    /\ NonMissing(idx) > 0

HeaderBlockComputed == Processed /\ Len(frame.header_rows) > 0

\* C7: a computed header block is start, start+1, .., start+k with k <= 2 and
\* every index below 20; row start+j (j = 1, 2, below 20) is in it exactly when
\* each of the rows start+1 .. start+j looks like a header.
C7_HeaderBlockContiguous ==
    HeaderBlockComputed =>
        LET hr == frame.header_rows
            start == frame.start_idx
        IN  /\ Len(hr) - 1 \in 0..2
            /\ \A i \in 1..Len(hr) : hr[i] = start + i - 1 /\ hr[i] < 20
            /\ \A j \in 1..2 :
                   start + j < 20 =>
                       ((\E i \in 1..Len(hr) : hr[i] = start + j)
                           <=> \A i \in 1..j : LooksLikeHeader(start + i))

\* C7 witness: below some preamble the block took one more row and halted at a
\* data row.
C7_Witness ==
    /\ HeaderBlockComputed
    /\ frame.start_idx >= 1
    /\ Len(frame.header_rows) = 2
    /\ frame.start_idx + 2 < Window
    /\ ~LooksLikeHeader(frame.start_idx + 2)

MaxExtra == 3

\* C8: if the extension allowed m extra rows and stopped after fewer than m,
\* then allowing m' > m extra rows gives the same header block and the same
\* composite names; load_excel allows 2.
C8_ExtensionLimitIdempotent ==
    Processed =>
        LET df_peek == Peek(TheGrid)
            start == frame.start_idx
        IN  /\ (~frame.raised => frame.header_rows =
                                    HeaderRowsWithin(df_peek, start, 2 + 1).header_rows)
            /\ \A m \in 0..MaxExtra, n \in 0..(MaxExtra + 1) :
                   LET a == HeaderRowsWithin(df_peek, start, m + 1)
                       b == HeaderRowsWithin(df_peek, start, n + 1)
                   IN  (m < n /\ ~a.raised /\ Len(a.header_rows) - 1 < m)
                       => /\ ~b.raised
                          /\ b.header_rows = a.header_rows
                          /\ NewColumns(HeaderDf(df_peek, b.header_rows))
                                 = NewColumns(HeaderDf(df_peek, a.header_rows))

\* C8 witness: the extension stopped at the row right below the start although
\* the row after that one looks like a header.
C8_Witness ==
    /\ HeaderBlockComputed
    /\ Len(frame.header_rows) = 1
    /\ ~LooksLikeHeader(frame.start_idx + 1)
    /\ frame.start_idx + 1 < Window
    /\ LooksLikeHeader(frame.start_idx + 2)

(***************************************************************************)
(* The sheets the merged header is checked on: no blank rows above, and    *)
(* cells that differ in case only, in surrounding blanks only, or are      *)
(* blank text.                                                             *)
(***************************************************************************)
MaxMergeCells == 6

MergeCells ==
    {NaN, StrCell(Ramo), StrCell(SpRamo), StrCell(<<" ">>), StrCell(<<"x">>),
     NumCell(<<"1">>)}

MergeInit ==
    /\ LoadStart
    /\ \E grid \in Grids(MergeCells, MaxMergeCells) : xls = Workbook(grid)

SpecMerge == MergeInit /\ [][LoadNext]_vars

\* The text at column c (from 1) of sheet row idx (from 0) after the row is
\* forward-filled from the left: that of the nearest non-missing cell at or
\* left of c, the empty text if there is none; trimmed.
FilledTrimmed(idx, c) ==
    LET row == TheGrid[idx + 1]
        src == {j \in 1..c : row[j].kind # "nan"}
    IN  IF src = {} THEN <<>>
        ELSE Strip(row[CHOOSE j \in src : \A k \in src : k <= j].text)

\* The header rows (positions in the block) whose value at column c is kept:
\* non-empty and no case-insensitive duplicate of a value of a row above.
KeptRows(hr, c) ==
    {r \in 1..Len(hr) :
        /\ FilledTrimmed(hr[r], c) # <<>>
        /\ \A q \in 1..(r - 1) :
               Lower(FilledTrimmed(hr[q], c)) # Lower(FilledTrimmed(hr[r], c))}

\* The kept values of column c, top to bottom, in their own casing.
KeptValues(hr, c) ==
    LET kept == KeptRows(hr, c)
    IN  [i \in 1..Cardinality(kept) |->
            FilledTrimmed(hr[CHOOSE r \in kept :
                                Cardinality({q \in kept : q <= r}) = i], c)]

NamesComputed == Processed /\ Len(frame.new_columns) > 0

\* C9: the composite name of column c is the "_"-join, top to bottom, of the
\* trimmed forward-filled header values at c that are non-empty and no
\* case-insensitive duplicate of an earlier one, in their own casing; with
\* none kept it is unnamed_<c>, c counted from 0.
C9_CompositeNames ==
    NamesComputed =>
        /\ Len(frame.new_columns) = Len(TheGrid[1])
        /\ \A c \in 1..Len(frame.new_columns) :
               frame.new_columns[c] =
                   IF KeptRows(frame.header_rows, c) = {}
                   THEN <<"u", "n", "n", "a", "m", "e", "d", "_">> \o StrOfInt(c - 1)
                   ELSE Join(<<"_">>, KeptValues(frame.header_rows, c))

\* C9 witness: a three-row header block gave a column the name Ramo_x, the
\* middle row's " ramo" being dropped as a duplicate of Ramo, next to a column
\* filled from the left.
C9_Witness ==
    /\ NamesComputed
    /\ Len(frame.header_rows) = 3
    /\ Len(frame.new_columns) = 2
    /\ frame.new_columns[2] = <<"R", "a", "m", "o", "_", "x">>
    /\ TheGrid[frame.header_rows[1] + 1][2].kind = "nan"
    /\ TheGrid[frame.header_rows[2] + 1][2] = StrCell(SpRamo)

(***************************************************************************)
(* Further claims about the normaliser.                                    *)
(***************************************************************************)
\* C11 as claimed: the labels _normalize_column_names returns are pairwise
\* distinct.
C11_NoDuplicateNames ==
    pc = "normalized" =>
        \A i, j \in 1..Len(normalized) : i # j => normalized[i] # normalized[j]

RECURSIVE CollapseRuns(_)
\* s with every maximal run of whitespace characters replaced by one "_".
CollapseRuns(s) ==
    IF Len(s) = 0 THEN <<>>
    ELSE IF Head(s) \in Whitespace
         THEN IF Len(s) >= 2 /\ s[2] \in Whitespace THEN CollapseRuns(Tail(s))
              ELSE <<"_">> \o CollapseRuns(Tail(s))
         ELSE <<Head(s)>> \o CollapseRuns(Tail(s))

\* The canonical form as claimed: trimmed, lowercased, whitespace runs to "_".
CanonicalForm(s) == CollapseRuns(Lower(Strip(s)))

\* C12 as claimed: a label's canonical form (the first column's, which gets no
\* suffix) is the label trimmed, lowercased, with every maximal run of
\* whitespace of any kind replaced by exactly one underscore.
C12_CanonicalForm ==
    (pc = "normalized" /\ Len(columns) >= 1) =>
        normalized[1] = CanonicalForm(columns[1])

(***************************************************************************)
(* Materialisation: the rows below the header block and the table made of  *)
(* them, checked over the sheets of SpecMerge.                             *)
(***************************************************************************)
Loaded == pc = "returned"

\* The sheet rows below the computed header block.
Below == SubSeq(TheGrid, frame.header_rows[Len(frame.header_rows)] + 2, Len(TheGrid))

\* The rows (columns) of Below holding a non-missing cell.
RowsWithData == {i \in 1..Len(Below) : \E c \in 1..Len(Below[i]) : Below[i][c].kind # "nan"}

ColsWithData == {c \in 1..Len(TheGrid[1]) : \E i \in 1..Len(Below) : Below[i][c].kind # "nan"}

\* The i-th smallest member of a set of numbers.
Nth(S, i) == CHOOSE x \in S : Cardinality({y \in S : y <= x}) = i

\* C13: the table holds exactly the rows below the header block that are not
\* all missing and exactly the columns that are not all missing across them,
\* every kept cell with its value and in its relative order; the table has no
\* all-missing row and no all-missing column, and dropping again changes
\* nothing.
C13_DropsExactlyEmptyRowsAndColumns ==
    Loaded =>
        LET df == frame.df
        IN  /\ Len(df.rows) = Cardinality(RowsWithData)
            /\ Len(df.columns) = Cardinality(ColsWithData)
            /\ \A i \in 1..Len(df.rows) :
                   /\ Len(df.rows[i]) = Len(df.columns)
                   /\ \A j \in 1..Len(df.columns) :
                          df.rows[i][j] = Below[Nth(RowsWithData, i)][Nth(ColsWithData, j)]
            /\ \A i \in 1..Len(df.rows) :
                   \E j \in 1..Len(df.columns) : df.rows[i][j].kind # "nan"
            /\ \A j \in 1..Len(df.columns) :
                   \E i \in 1..Len(df.rows) : df.rows[i][j].kind # "nan"
            /\ Clean(df) = df

\* A sheet with an all-missing row and an all-missing column below its header
\* is loaded into a table that still has a row and a column.
C13_Witness ==
    /\ Loaded
    /\ \E i \in 1..Len(Below) : i \notin RowsWithData
    /\ \E c \in 1..Len(TheGrid[1]) : c \notin ColsWithData
    /\ Len(frame.df.rows) >= 1
    /\ Len(frame.df.columns) >= 1

TrialReport == <<"T", "R", "I", "A", "L", " ", "R", "E", "P", "O", "R", "T">>

Plot == <<"P", "l", "o", "t">>

Yield == <<"Y", "i", "e", "l", "d">>

ExampleTexts == {<<"1">>, <<"2", "0", ".", "5">>, <<"2">>}

ExampleCells == {NaN} \cup {StrCell(t) : t \in ExampleTexts} \cup {NumCell(t) : t \in ExampleTexts}

ExampleGrid(a, b, c, d) ==
    << <<StrCell(TrialReport), NaN>>, <<StrCell(Plot), StrCell(Yield)>>, <<a, b>>, <<c, d>> >>

ExampleInit ==
    /\ LoadStart
    /\ \E a, b, c, d \in ExampleCells : xls = Workbook(ExampleGrid(a, b, c, d))

SpecExample == ExampleInit /\ [][LoadNext]_vars

\* The example's sheet with its data cells as texts, and as numbers.
ExampleAsText ==
    ExampleGrid(StrCell(<<"1">>), StrCell(<<"2", "0", ".", "5">>), StrCell(<<"2">>), NaN)

ExampleAsNumbers ==
    ExampleGrid(NumCell(<<"1">>), NumCell(<<"2", "0", ".", "5">>), NumCell(<<"2">>), NaN)

\* The outcome the example states: start index 1, header block row 1 alone,
\* columns plot and yield, two rows kept, the second row's yield missing.
ExampleOutcome ==
    /\ Loaded
    /\ frame.start_idx = 1
    /\ frame.header_rows = <<1>>
    /\ frame.df.columns = <<Lower(Plot), Lower(Yield)>>
    /\ Len(frame.df.rows) = 2
    /\ frame.df.rows[1] = TheGrid[3]
    /\ frame.df.rows[2] = TheGrid[4]
    /\ frame.df.rows[2][2] = NaN

\* C15 as claimed: the example's sheet, its data cells the texts "1", "20.5"
\* and "2", is loaded with start index 1, header block row 1 alone, columns
\* plot and yield and both data rows, the second row's yield missing.
C15_ExampleWithTextCells == (Processed /\ TheGrid = ExampleAsText) => ExampleOutcome

\* C15 amended: with the data cells the numbers 1, 20.5 and 2 the example's
\* sheet is loaded with start index 1, header block row 1 alone, columns plot
\* and yield and both data rows, the second row's yield missing.
C15_ExampleWithNumberCells == (Processed /\ TheGrid = ExampleAsNumbers) => ExampleOutcome

C15_Witness == Loaded /\ TheGrid = ExampleAsNumbers /\ Len(frame.df.rows) = 2

(***************************************************************************)
(* Failures of load_excel.                                                 *)
(***************************************************************************)
\* C16 as claimed: header location and header-block extension complete for
\* every sheet, whatever its number of rows and columns, and produce a start
\* index and a header block; they never raise.
C16_HeaderInferenceNeverFails ==
    Processed => (frame.error # "IndexError" /\ Len(frame.header_rows) > 0)

MaxSheets == 3

MaxBookRows == 3

SheetNames == {<<" ", "S", "1">>, <<"S", "1">>, <<"S", "2">>}

BookCells == {StrCell(Ramo), NumCell(<<"1">>)}

BookGrids == UNION {[1..r -> [1..1 -> BookCells]] : r \in 0..MaxBookRows}

\* xls.sheet_names of a workbook of n sheets: n different names.
SheetNameLists(n) ==
    {names \in [1..n -> SheetNames] : \A i, j \in 1..n : i # j => names[i] # names[j]}

BookInit ==
    /\ LoadStart
    /\ \E n \in 1..MaxSheets :
           \E names \in SheetNameLists(n), grids \in [1..n -> BookGrids] :
               xls = [i \in 1..n |-> [name |-> names[i], grid |-> grids[i]]]

SpecBook == BookInit /\ [][LoadNext]_vars

\* Processing sheet i (from 1) of the workbook raises.
Fails(i) == LoadSheet(xls[i].grid).raised

\* C17 as claimed: when the materialisation of a sheet fails during
\* load_excel, the sheets after it are still processed and registered (those
\* that do not fail themselves).
C17_SiblingsStillRegistered ==
    (pc = "raised" /\ frame.error = "ValueError") =>
        \A i \in (pos + 2)..Len(xls) :
            ~Fails(i) => \E k \in 1..Len(registered) : registered[k] = TableName(xls[i].name)

\* C17 amended: a sheet's failure ends load_excel with the exception: the
\* sheets before the failing sheet are registered, in order, and no sheet
\* after it is processed or registered; load_excel returns only if no sheet
\* fails.
C17_FailureEndsLoad ==
    /\ pc = "raised" =>
           /\ pos < Len(xls)
           /\ Fails(pos + 1)
           /\ \A i \in 1..pos : ~Fails(i)
           /\ registered = [i \in 1..pos |-> TableName(xls[i].name)]
           /\ {tables[k][1] : k \in 1..Len(tables)} =
                  {registered[k] : k \in 1..Len(registered)}
           /\ ~ENABLED LoadNext
    /\ pc = "returned" => \A i \in 1..Len(xls) : ~Fails(i)

\* The materialisation of the second of three sheets failed; the third, which
\* would load under a name of its own, was not registered.
C17_Witness ==
    /\ pc = "raised"
    /\ frame.error = "ValueError"
    /\ pos = 1
    /\ Len(xls) = 3
    /\ ~Fails(3)
    /\ ~DictHas(tables, TableName(xls[3].name))

\* The last sheet (from 1) of the workbook whose table name is that of sheet i.
LastWithNameOf(i) ==
    CHOOSE j \in i..Len(xls) :
        /\ TableName(xls[j].name) = TableName(xls[i].name)
        /\ \A k \in (j + 1)..Len(xls) : TableName(xls[k].name) # TableName(xls[i].name)

\* C19: when load_excel returns, the returned names are, in sheet order and
\* one per sheet, <stem>__<trimmed lowercased sheet name>; each name has one
\* registry entry, holding the table, the file path, the sheet name as written
\* and the header rows of the last sheet that produced the name.
C19_ReturnedNamesAndMetadata ==
    Loaded =>
        /\ Len(registered) = Len(xls)
        /\ \A i \in 1..Len(xls) :
               LET name == FileStem \o <<"_", "_">> \o Lower(Strip(xls[i].name))
                   later == LoadSheet(xls[LastWithNameOf(i)].grid)
               IN  /\ registered[i] = name
                   /\ Occurrences(tables, name) = 1
                   /\ GetResult(tables, name) = [raised |-> FALSE, value |-> later.df]
                   /\ GetMetadataResult(tables, name) =
                          [raised |-> FALSE,
                           value |-> [file_path |-> FilePath,
                                      sheet |-> xls[LastWithNameOf(i)].name,
                                      header_rows |-> later.header_rows]]

\* Two sheets whose names differ in surrounding blanks only were loaded with
\* different tables; the returned list names their one entry twice.
C19_Witness ==
    /\ Loaded
    /\ Len(xls) >= 2
    /\ xls[1].name # xls[2].name
    /\ registered[1] = registered[2]
    /\ LoadSheet(xls[1].grid).df # LoadSheet(xls[2].grid).df
    /\ LoadSheet(xls[1].grid).header_rows # LoadSheet(xls[2].grid).header_rows

(***************************************************************************)
(* export_to_csv (export.py), called on a DataFrameRegistry.  A run makes  *)
(* one call, into an empty output_dir.                                     *)
(***************************************************************************)
\* The attributes of a DataFrameRegistry object: its field and its methods.
RegistryAttributes == {"_tables", "register", "get", "get_metadata", "list", "unregister"}

\* hasattr(registry, attr)
HasAttr(attr) == attr \in RegistryAttributes

\* registry.<method>() and registry.<field> for the names export_to_csv uses.
RegistryCall(d, method) == IF method = "list" THEN ListResult(d) ELSE "AttributeError"

RegistryField(d, field) == IF field = "_tables" THEN d ELSE "AttributeError"

\* tables: Optional[List[str]]
NoTables == [isNone |-> TRUE, list |-> <<>>]

Given(list) == [isNone |-> FALSE, list |-> list]

MaxExportNames == 2

TableLists ==
    UNION {{list \in [1..n -> Names] : \A i, j \in 1..n : i # j => list[i] # list[j]} :
           n \in 0..MaxExportNames}

TablesArgs == {NoTables} \cup {Given(list) : list \in TableLists}

\* The names export_to_csv goes through, or found = FALSE where it prints
\* "No tables specified and cannot list from registry" and returns.
TablesToExport(d, arg) ==
    IF ~arg.isNone THEN [found |-> TRUE, tables |-> arg.list]
    ELSE IF HasAttr("list_tables")
         THEN [found |-> TRUE, tables |-> RegistryCall(d, "list_tables")]
         ELSE IF HasAttr("_frames")
              THEN [found |-> TRUE, tables |-> DictKeys(RegistryField(d, "_frames"))]
              ELSE [found |-> FALSE, tables |-> <<>>]

\* f"{table}.csv"
CsvName(table) == table \o <<".", "c", "s", "v">>

\* The loop over tables: registry.get(table) raises KeyError for a name not
\* registered and ends the call; the files written before it stay.
RECURSIVE ExportLoop(_, _, _)
ExportLoop(d, list, written) ==
    IF Len(list) = 0 THEN [raised |-> FALSE, files |-> written]
    ELSE IF GetResult(d, Head(list)).raised
         THEN [raised |-> TRUE, files |-> written]
         ELSE ExportLoop(d, Tail(list), written \cup {CsvName(Head(list))})

\* export_to_csv(registry, output_dir, tables): how the call ends and the
\* files of output_dir after it.
ExportResult(d, arg, written) ==
    LET listing == TablesToExport(d, arg)
    IN  IF ~listing.found THEN [outcome |-> "error", files |-> written]
        ELSE LET r == ExportLoop(d, listing.tables, written)
             IN  [outcome |-> IF r.raised THEN "KeyError" ELSE "returned",
                  files |-> r.files]

ExportToCsv(arg) ==
    /\ exported.outcome = "idle"
    /\ files' = ExportResult(tables, arg, files).files
    /\ exported' = [outcome |-> ExportResult(tables, arg, files).outcome,
                    tables |-> arg, names |-> ListResult(tables)]
    /\ UNCHANGED <<regVars, loadVars, normVars>>

ExportNext ==
    \/ \E name \in Names, dataframe \in DataFrames : Register(name, dataframe, NoneArg)
    \/ \E name \in Names : Unregister(name)
    \/ \E arg \in TablesArgs : ExportToCsv(arg)

SpecExport == Init /\ [][ExportNext]_vars

\* C20 as claimed: export_to_csv called with tables=None writes one file
\* <name>.csv for every name in the registry at the call.
C20_ExportAllWhenNone ==
    (exported.outcome # "idle" /\ exported.tables.isNone) =>
        files = {CsvName(exported.names[k]) : k \in 1..Len(exported.names)}

(***************************************************************************)
(* The order of normalisation and dropping, over the sheets of SpecMerge.  *)
(***************************************************************************)
\* The base name of sheet column c (from 1): its composite name trimmed,
\* lowercased, spaces replaced.
BaseOfColumn(c) == BaseName(frame.new_columns[c])

\* The name a column of base name base gets after k earlier columns of the
\* same base name.
Suffixed(base, k) == IF k = 0 THEN base ELSE base \o <<"_">> \o StrOfInt(k)

\* The sheet columns left of c with c's base name: all of them, and those
\* that are kept.
EarlierAll(c) == {e \in 1..(c - 1) : BaseOfColumn(e) = BaseOfColumn(c)}

EarlierKept(c) == EarlierAll(c) \cap ColsWithData

\* C21 as claimed: the collision suffix of a kept column counts every column
\* left of it with the same base name, the columns dropped as empty included.
C21_SuffixCountsDroppedColumns ==
    Loaded =>
        \A j \in 1..Len(frame.df.columns) :
            LET c == Nth(ColsWithData, j)
            IN  frame.df.columns[j] = Suffixed(BaseOfColumn(c), Cardinality(EarlierAll(c)))

\* C21 amended: the names are normalised after the empty columns are dropped;
\* the collision suffix of a kept column counts the kept columns left of it
\* with the same base name only.
C21_SuffixCountsKeptColumns ==
    Loaded =>
        \A j \in 1..Len(frame.df.columns) :
            LET c == Nth(ColsWithData, j)
            IN  frame.df.columns[j] = Suffixed(BaseOfColumn(c), Cardinality(EarlierKept(c)))

\* Three columns of one base name, the first dropped as empty: the third is
\* kept with the suffix 1.
C21_Witness ==
    /\ Loaded
    /\ \E c \in ColsWithData :
           /\ EarlierKept(c) # {}
           /\ EarlierAll(c) # EarlierKept(c)
           /\ \E j \in 1..Len(frame.df.columns) :
                  /\ Nth(ColsWithData, j) = c
                  /\ frame.df.columns[j] = Suffixed(BaseOfColumn(c), 1)

(***************************************************************************)
(* load_excel called on a registry that already holds entries, some under  *)
(* the names the workbook's sheets will produce.                           *)
(***************************************************************************)
MaxReloadRows == 2

ReloadGrids == UNION {[1..r -> [1..1 -> BookCells]] : r \in 0..MaxReloadRows}

\* A frame registered earlier, with its metadata.
OldFrame == DataFrame(<<<<"o", "l", "d">>>>, <<<<NumCell(<<"1">>)>>>>)

OldMetadata == Some([file_path |-> <<"o", "l", "d">>])

OtherName == <<"o", "t", "h", "e", "r">>

\* The names of the earlier entries, in the order they were registered.
PriorNames == <<TableName(<<"S", "1">>), OtherName, TableName(<<"S", "2">>)>>

RECURSIVE RegisterAll(_, _)
RegisterAll(d, names) ==
    IF Len(names) = 0 THEN d
    ELSE RegisterAll(RegisterResult(d, Head(names), OldFrame, OldMetadata), Tail(names))

\* The registries earlier register calls can have left: any of the names.
PriorRegistries ==
    {RegisterAll(EmptyDict, SelectSeq(PriorNames, LAMBDA n : n \in chosen)) :
         chosen \in SUBSET {PriorNames[k] : k \in 1..Len(PriorNames)}}

ReloadInit ==
    /\ tables \in PriorRegistries
    /\ last = Call("init", <<>>, FALSE, "None", Never)
    /\ recent = [n \in Names |-> Never]
    /\ NormIdle
    /\ ExportIdle
    /\ pc = "loading"
    /\ pos = 0
    /\ registered = <<>>
    /\ frame = <<>>
    /\ before = tables
    /\ \E n \in 1..MaxSheets :
           \E names \in SheetNameLists(n), grids \in [1..n -> ReloadGrids] :
               xls = [i \in 1..n |-> [name |-> names[i], grid |-> grids[i]]]

SpecReload == ReloadInit /\ [][LoadNext]_vars

\* The table names of the sheets processed so far.
DoneNames == {TableName(xls[k].name) : k \in 1..pos}

\* The last sheet processed so far whose table name is name.
LastDone(name) ==
    CHOOSE j \in 1..pos :
        /\ TableName(xls[j].name) = name
        /\ \A k \in (j + 1)..pos : TableName(xls[k].name) # name

\* The entry load_excel registers for sheet j.
SheetEntry(j) ==
    LET loaded == LoadSheet(xls[j].grid)
    IN  [dataframe |-> loaded.df,
         metadata |-> [file_path |-> FilePath, sheet |-> xls[j].name,
                       header_rows |-> loaded.header_rows]]

KeySet(d) == {d[k][1] : k \in 1..Len(d)}

\* C22: when load_excel raises at a sheet, each sheet processed before it has
\* its entry (the last of them per name, in place of an earlier entry of that
\* name), the failing sheet and the sheets after it have created no entry, and
\* the entry under every other name is the one the registry held at the call.
C22_NoRollbackOnFailure ==
    pc = "raised" =>
        /\ KeySet(tables) = KeySet(before) \cup DoneNames
        /\ \A name \in KeySet(tables) :
               /\ Occurrences(tables, name) = 1
               /\ DictGetItem(tables, name).value =
                      IF name \in DoneNames THEN SheetEntry(LastDone(name))
                      ELSE DictGetItem(before, name).value
        /\ \A k \in (pos + 1)..Len(xls) :
               LET name == TableName(xls[k].name)
               IN  name \notin DoneNames =>
                       /\ DictHas(tables, name) = DictHas(before, name)
                       /\ DictHas(tables, name) =>
                              DictGetItem(tables, name).value = DictGetItem(before, name).value

\* load_excel raised at its second sheet of three: the first sheet's table
\* took the place of an earlier entry of its name, the entry under another
\* name is as before, and the third sheet, which would load, has no entry.
C22_Witness ==
    /\ pc = "raised"
    /\ pos = 1
    /\ Len(xls) = 3
    /\ DictHas(before, TableName(xls[1].name))
    /\ DictGetItem(tables, TableName(xls[1].name)).value = SheetEntry(1)
    /\ DictHas(tables, OtherName)
    /\ DictGetItem(tables, OtherName).value = DataFrameEntry(OldFrame, MetadataCopy(OldMetadata))
    /\ ~Fails(3)
    /\ ~DictHas(tables, TableName(xls[3].name))

====
